---- MODULE Spec2Model ----
(***************************************************************************)
(* Model of hyde/ext/publishers/pyfs.py: the PyFS publisher, which mirrors *)
(* the local deploy tree onto a remote PyFilesystem FS object.             *)
(*                                                                         *)
(* Paths are strings, as the publisher hands them to the FS objects.  A    *)
(* tree is a set of directory paths plus a function from file paths to     *)
(* [content, mtime] records.  One action stands for one statement of       *)
(* initialize() or one iteration of a loop of publish(), that is for at    *)
(* most one remote operation.  A remote operation that raises has no       *)
(* effect on the remote tree.                                              *)
(***************************************************************************)
EXTENDS Naturals, Sequences, FiniteSets, TLC

\* Modification times are 1..MaxTime.
MaxTime == 2
\* publish() is called at most MaxRuns times in a row.
MaxRuns == 2

\* _calculate_etag reads at most ChunkSize bytes at a time (1024 * 64 in the
\* source) from files of at most MaxFileLen bytes.
ChunkSize == 2
MaxFileLen == 5

Times == 1..MaxTime
\* The remote clock during a pass: no file is stamped in the future.
Now == MaxTime
\* File contents (byte strings): every local file has bytes of its own, and a
\* remote file holds either the bytes of its local namesake or other bytes.
LocalBytes(path) == "bytes of " \o path
OtherBytes == "other bytes"
\* The root directory of an FS object, and the sub-directories a tree may have.
Root == "/"
SubDirNames == {"s"}
\* File names the root directory may hold.
FileNames == {"a", "b"}
\* File names a sub-directory may hold.
SubFileNames == {"a"}
\* The order in which a directory listing returns names.
NameOrder == <<"a", "b", "s">>

------------------------------------------------------------------------------
(* Python values, as far as initialize() tells them apart *)
PyMissing == [type |-> "missing", val |-> ""]
PyBool(b) == [type |-> "bool", val |-> IF b THEN "True" ELSE "False"]
PyStr(str) == [type |-> "str", val |-> str]
PyInt(n) == [type |-> "int", val |-> n]

\* getattr(settings, name, default)
GetAttr(value, default) == IF value = PyMissing THEN default ELSE value

\* bool(v)
Truthy(v) ==
    \/ v.type = "bool" /\ v.val = "True"
    \/ v.type = "str" /\ v.val # ""
    \/ v.type = "int" /\ v.val # "0"

\* isinstance(v, basestring)
IsString(v) == v.type = "str"

\* The digest algorithms hashlib knows (lower case).
HashAlgorithms == {"md5", "sha1", "sha256"}

\* The values settings.check_etag may hold.
EtagSettings ==
    {PyMissing, PyBool(FALSE), PyBool(TRUE), PyInt("1"),
     PyStr(""), PyStr("md5"), PyStr("nosuchalgo")}
\* The values settings.check_mtime may hold.
MtimeSettings == {PyMissing, PyBool(FALSE), PyBool(TRUE)}
\* The placeholders a URL may contain.
Placeholders == {"username", "password"}

------------------------------------------------------------------------------
(* fs.path.join, for an absolute directory path and a single name *)
pathjoin(dirnm, filenm) ==
    IF dirnm = Root THEN dirnm \o filenm ELSE dirnm \o "/" \o filenm

SubDirs == {pathjoin(Root, s) : s \in SubDirNames}
Dirs == {Root} \cup SubDirs

NamesIn(d) == IF d = Root THEN FileNames ELSE SubFileNames

\* The file paths a tree with directories ds may hold.
PathsUnder(ds) == UNION {{pathjoin(d, n) : n \in NamesIn(d)} : d \in ds}

\* Every tree: the root, some sub-directories, and files in those directories
\* whose contents are drawn from Bytes(path).
Trees(Bytes(_)) ==
    LET Files(P) == {f \in [P -> [content : {LocalBytes(p) : p \in P} \cup {OtherBytes},
                                  mtime : Times]] :
                        \A p \in P : f[p].content \in Bytes(p)}
    IN  UNION {UNION {{[dirs |-> {Root} \cup sd, files |-> f] : f \in Files(P)} :
                      P \in SUBSET PathsUnder({Root} \cup sd)} :
               sd \in SUBSET SubDirs}

LocalContents(path) == {LocalBytes(path)}
RemoteContents(path) == {LocalBytes(path), OtherBytes}
LocalTrees == Trees(LocalContents)
RemoteTrees == Trees(RemoteContents)
EmptyFiles == [p \in {} |-> [content |-> OtherBytes, mtime |-> 1]]

\* The names of S in the order of a directory listing.
RECURSIVE Listing(_, _)
Listing(S, names) ==
    IF names = <<>> THEN <<>>
    ELSE (IF Head(names) \in S THEN <<Head(names)>> ELSE <<>>) \o Listing(S, Tail(names))

Range(seq) == {seq[k] : k \in 1..Len(seq)}

------------------------------------------------------------------------------
VARIABLES
    settings,         \* the settings object handed to initialize()
    url,              \* self.url: the placeholders it still contains
    check_mtime,      \* self.check_mtime
    check_etag,       \* self.check_etag
    prompts,          \* the credentials asked of the user, in order
    opens,            \* the number of calls of open_fs
    localDirs,        \* deploy_fs: directories
    localFiles,       \* deploy_fs: file path -> [content, mtime]
    remoteDirs,       \* self.fs: directories
    remoteFiles,      \* self.fs: file path -> [content, mtime]
    pc,               \* position in initialize() or publish()
    walk,             \* the steps deploy_fs.walk() has still to yield
    dirnm,            \* step.path
    local_filenms,    \* [f.name for f in step.files]
    remote_fileinfos, \* list(self.fs.filterdir(dirnm, ...))
    i,                \* index of the running inner loop
    ops,              \* the remote operations this publish() issued, in order
    remote0,          \* remoteFiles when this publish() was called
    dirs0,            \* remoteDirs when this publish() was called
    run,              \* the number of calls of publish()
    stream,           \* _calculate_etag: the open file f, [bytes, pos]
    data,             \* _calculate_etag: the chunk read last
    hasher,           \* _calculate_etag: the state of the hashlib object
    fed,              \* the bytes handed to hasher.update() so far
    digest            \* the value _calculate_etag returned

vars == <<settings, url, check_mtime, check_etag, prompts, opens, localDirs,
          localFiles, remoteDirs, remoteFiles, pc, walk, dirnm, local_filenms,
          remote_fileinfos, i, ops, remote0, dirs0, run, stream, data, hasher, fed,
          digest>>

config == <<settings, url, check_mtime, check_etag, prompts, opens>>
deploy == <<localDirs, localFiles>>
remote == <<remoteDirs, remoteFiles>>
step == <<walk, dirnm, local_filenms, remote_fileinfos, i>>
history == <<ops, remote0, dirs0, run>>
hashing == <<stream, data, hasher, fed, digest>>

------------------------------------------------------------------------------
(* The FS interface, as publish() uses it *)

WalkRootTwice(dirs) ==
    LET subs == Listing({n \in SubDirNames : pathjoin(Root, n) \in dirs}, NameOrder)
    IN  <<Root>> \o [k \in 1..Len(subs) |-> pathjoin(Root, subs[k])] \o <<Root>>

WalkEveryDir(dirs) ==
    LET subs == Listing(SubDirNames, NameOrder)
    IN  <<Root>> \o [k \in 1..Len(subs) |-> pathjoin(Root, subs[k])]

WalkBottomUp(dirs) ==
    LET subs == Listing({n \in SubDirNames : pathjoin(Root, n) \in dirs}, NameOrder)
    IN  [k \in 1..Len(subs) |-> pathjoin(Root, subs[k])] \o <<Root>>

\* deploy_fs.walk(): top-down, a directory before its sub-directories.
Walk(dirs) ==
    LET subs == Listing({n \in SubDirNames : pathjoin(Root, n) \in dirs}, NameOrder)
    IN  <<Root>> \o [k \in 1..Len(subs) |-> pathjoin(Root, subs[k])]

\* The names of the files directly in directory d.
FilesIn(files, d) == {n \in FileNames : pathjoin(d, n) \in DOMAIN files}

\* step.files: the files directly in directory d, as listed.
StepFiles(files, d) == Listing(FilesIn(files, d), NameOrder)

\* filterdir(d, exclude_dirs=['*'], namespaces=['basic', 'details'])
FilterDir(files, d) ==
    LET names == StepFiles(files, d)
    IN  [k \in 1..Len(names) |->
            [name |-> names[k], modified |-> files[pathjoin(d, names[k])].mtime]]

\* makedir(d, recreate=True) succeeds when d exists or its parent does.
CanMakeDir(dirs, d) == d \in dirs \/ Root \in dirs

WriteFileNoBytes(files, path, bytes, t) ==
    [p \in DOMAIN files \cup {path} |->
        IF p = path THEN [content |-> OtherBytes, mtime |-> t] ELSE files[p]]

\* writefile(path, f): create or overwrite with the bytes of f, stamped t.
WriteFile(files, path, bytes, t) ==
    [p \in DOMAIN files \cup {path} |->
        IF p = path THEN [content |-> bytes, mtime |-> t] ELSE files[p]]

OpenTruncating(files, path) == [files EXCEPT ![path].content = OtherBytes]

\* open(path, "rb") on the local tree, and the reads of the open file: the
\* local files afterwards.
OpenRead(files, path) == files

CandidatesRelisted(infos, files, dir) == FilterDir(files, dir)

\* line 95: the remote files the deletion loop goes over, which are the list
\* made at line 66 and not a new listing of the directory.
Candidates(infos, files, dir) == infos

\* remove(path)
Remove(files, path) == [p \in DOMAIN files \ {path} |-> files[p]]

\* The bytes of the file at path, if there is one.
BytesAt(files, path) ==
    IF path \in DOMAIN files THEN files[path].content ELSE "<no file>"

Op(o, p, ok) == [op |-> o, path |-> p, ok |-> ok]

------------------------------------------------------------------------------
(* The decisions of initialize() and publish() *)

EtagInvalidString(etag) == Truthy(etag) /\ IsString(etag)

\* line 43: the test that guards the ValueError
EtagInvalid(etag) == Truthy(etag) /\ ~IsString(etag)

\* lines 71-75: the remote info of the same name, or None
None == [name |-> "<None>", modified |-> 0]
FindInfo(infos, filenm) ==
    IF \E k \in 1..Len(infos) : infos[k].name = filenm
    THEN infos[CHOOSE k \in 1..Len(infos) :
                 /\ infos[k].name = filenm
                 /\ \A j \in 1..(k-1) : infos[j].name # filenm]
    ELSE None

SkipByEtagActive(info, etag, remote_bytes, local_bytes) ==
    /\ info # None
    /\ Truthy(etag)
    /\ remote_bytes = local_bytes

\* lines 76-82: the comparison of etags is commented out, so it skips nothing
SkipByEtag(info, etag, remote_bytes, local_bytes) == FALSE

SkipUploadNotOlder(info, checkMtime, local_mtime) ==
    /\ info # None
    /\ checkMtime
    /\ info.modified >= local_mtime

SkipUploadNewFile(info, checkMtime, local_mtime) ==
    \/ info = None
    \/ checkMtime /\ info.modified > local_mtime

\* lines 84-89: skip the upload when the remote copy is more recent
SkipUpload(info, checkMtime, local_mtime) ==
    /\ info # None
    /\ checkMtime
    /\ info.modified > local_mtime

ShouldRemoveInverted(dir, info, filenms) ==
    pathjoin(dir, info.name) \in Range(filenms)

\* lines 96-97: the test that guards self.fs.remove(filepath)
ShouldRemove(dir, info, filenms) ==
    pathjoin(dir, info.name) \notin Range(filenms)

RaiseSwallowed == "walk"

RaiseAsEmptyListing == "files"

\* An exception raised in publish() is caught nowhere: it leaves publish().
Raise == "failed"

------------------------------------------------------------------------------
\* _calculate_etag is not running.
NotHashing ==
    /\ stream = [bytes |-> <<>>, pos |-> 0]
    /\ data = <<>>
    /\ hasher = [alg |-> "", h |-> 0]
    /\ fed = <<>>
    /\ digest = <<>>

------------------------------------------------------------------------------
(* initialize() *)

InitInitialize ==
    /\ settings \in [url : SUBSET Placeholders, check_mtime : MtimeSettings,
                     check_etag : EtagSettings]
    /\ url = {}
    /\ check_mtime = FALSE
    /\ check_etag = PyMissing
    /\ prompts = <<>>
    /\ opens = 0
    /\ localDirs = {Root}
    /\ localFiles = EmptyFiles
    /\ remoteDirs = {Root}
    /\ remoteFiles = EmptyFiles
    /\ pc = "initialize"
    /\ walk = <<>>
    /\ dirnm = Root
    /\ local_filenms = <<>>
    /\ remote_fileinfos = <<>>
    /\ i = 1
    /\ ops = <<>>
    /\ remote0 = EmptyFiles
    /\ dirs0 = {Root}
    /\ run = 0
    /\ NotHashing

\* lines 39-44
ReadSettings ==
    /\ pc = "initialize"
    /\ url' = settings.url
    /\ check_mtime' = Truthy(GetAttr(settings.check_mtime, PyBool(FALSE)))
    /\ check_etag' = GetAttr(settings.check_etag, PyBool(FALSE))
    /\ pc' = IF EtagInvalid(check_etag') THEN "ValueError" ELSE "prompt"
    /\ UNCHANGED <<settings, prompts, opens, deploy, hashing, remote, step, history>>

\* lines 45, 48-56
PromptForCredentials ==
    /\ pc = "prompt"
    /\ prompts' = (IF "username" \in url THEN <<"username">> ELSE <<>>)
                  \o (IF "password" \in url THEN <<"password">> ELSE <<>>)
    /\ url' = {}
    /\ pc' = "open_fs"
    /\ UNCHANGED <<settings, check_mtime, check_etag, opens, deploy, hashing, remote, step,
                   history>>

\* line 46
OpenFs ==
    /\ pc = "open_fs"
    /\ opens' = opens + 1
    /\ \E ok \in BOOLEAN : pc' = IF ok THEN "initialized" ELSE "open_fs failed"
    /\ UNCHANGED <<settings, url, check_mtime, check_etag, prompts, deploy, hashing, remote,
                   step, history>>

NextInitialize ==
    \/ ReadSettings
    \/ PromptForCredentials
    \/ OpenFs

SpecInitialize == InitInitialize /\ [][NextInitialize]_vars

------------------------------------------------------------------------------
(* _calculate_etag(f), called on an initialized publisher *)

\* The values a byte of a file may have.
ByteValues == {1, 2}

\* Every file of at most n bytes.
RECURSIVE FilesUpTo(_)
FilesUpTo(n) ==
    IF n = 0 THEN {<<>>}
    ELSE LET shorter == FilesUpTo(n - 1)
         IN  shorter \cup {Append(b, v) : b \in {c \in shorter : Len(c) = n - 1},
                                          v \in ByteValues}

\* str.lower(), on the names used here
Lower(str) ==
    CASE str = "MD5" -> "md5"
      [] str = "SHA1" -> "sha1"
      [] OTHER -> str

\* hashlib: a new hash object of algorithm alg
HashNew(alg) ==
    [alg |-> alg, h |-> CASE alg = "md5" -> 1 [] alg = "sha1" -> 2 [] OTHER -> 3]

\* hashlib: update(bytes), which digests the bytes one after the other
RECURSIVE HashUpdate(_, _)
HashUpdate(hash, bytes) ==
    IF bytes = <<>> THEN hash
    ELSE LET mult == CASE hash.alg = "md5" -> 3 [] hash.alg = "sha1" -> 5 [] OTHER -> 7
         IN  HashUpdate([hash EXCEPT !.h = (hash.h * mult + Head(bytes)) % 251],
                        Tail(bytes))

\* hashlib: hexdigest()
HexDigest(hash) == <<hash.h \div 16, hash.h % 16>>

\* f.read(n): the numbers of bytes a read of at most n bytes may return
ReadSizes(file, n) ==
    LET left == Len(file.bytes) - file.pos
    IN  IF left = 0 THEN {0}
        ELSE {k \in 1..n : k <= left}

\* f.read(n) returning k bytes: the bytes, and the file after the read
ReadBytes(file, k) == SubSeq(file.bytes, file.pos + 1, file.pos + k)
AfterRead(file, k) == [file EXCEPT !.pos = file.pos + k]

KeepReadingFullChunk(chunk) == Len(chunk) = ChunkSize

\* line 104: while data
KeepReading(chunk) == chunk # <<>>

InitEtag ==
    /\ check_etag \in {PyStr("md5"), PyStr("SHA1"), PyStr("nosuchalgo")}
    /\ check_mtime = FALSE
    /\ settings = [url |-> {}, check_mtime |-> PyBool(check_mtime),
                   check_etag |-> check_etag]
    /\ url = {}
    /\ prompts = <<>>
    /\ opens = 1
    /\ localDirs = {Root}
    /\ localFiles = EmptyFiles
    /\ remoteDirs = {Root}
    /\ remoteFiles = EmptyFiles
    /\ pc = "_calculate_etag"
    /\ walk = <<>>
    /\ dirnm = Root
    /\ local_filenms = <<>>
    /\ remote_fileinfos = <<>>
    /\ i = 1
    /\ ops = <<>>
    /\ remote0 = EmptyFiles
    /\ dirs0 = {Root}
    /\ run = 0
    /\ stream \in [bytes : FilesUpTo(MaxFileLen), pos : {0}]
    /\ data = <<>>
    /\ hasher = [alg |-> "", h |-> 0]
    /\ fed = <<>>
    /\ digest = <<>>

\* line 102: hashlib has no such algorithm
NoSuchAlgorithm ==
    /\ pc = "_calculate_etag"
    /\ Lower(check_etag.val) \notin HashAlgorithms
    /\ pc' = "AttributeError"
    /\ UNCHANGED <<config, deploy, hashing, remote, step, history>>

\* lines 102-103: the hash object is made and the first chunk read
NewHasher ==
    /\ pc = "_calculate_etag"
    /\ Lower(check_etag.val) \in HashAlgorithms
    /\ hasher' = HashNew(Lower(check_etag.val))
    /\ \E k \in ReadSizes(stream, ChunkSize) :
           /\ data' = ReadBytes(stream, k)
           /\ stream' = AfterRead(stream, k)
    /\ pc' = "while"
    /\ UNCHANGED <<config, deploy, remote, step, history, fed, digest>>

\* lines 104-106: the chunk is digested and the next one read
UpdateAndRead ==
    /\ pc = "while"
    /\ KeepReading(data)
    /\ hasher' = HashUpdate(hasher, data)
    /\ fed' = fed \o data
    /\ \E k \in ReadSizes(stream, ChunkSize) :
           /\ data' = ReadBytes(stream, k)
           /\ stream' = AfterRead(stream, k)
    /\ UNCHANGED <<config, deploy, remote, step, history, pc, digest>>

\* lines 104, 107: the read was empty, the digest is returned
ReturnDigest ==
    /\ pc = "while"
    /\ ~KeepReading(data)
    /\ digest' = HexDigest(hasher)
    /\ pc' = "returned"
    /\ UNCHANGED <<config, deploy, remote, step, history, stream, data, hasher, fed>>

NextEtag ==
    \/ NoSuchAlgorithm
    \/ NewHasher
    \/ UpdateAndRead
    \/ ReturnDigest

SpecEtag == InitEtag /\ [][NextEtag]_vars

------------------------------------------------------------------------------
(* publish(), called on an initialized publisher *)

\* The values of self.check_etag publish() is run with.
PublishEtags == {PyBool(FALSE), PyStr("md5")}

Init ==
    /\ check_mtime \in BOOLEAN
    /\ check_etag \in PublishEtags
    /\ settings = [url |-> {}, check_mtime |-> PyBool(check_mtime),
                   check_etag |-> check_etag]
    /\ url = {}
    /\ prompts = <<>>
    /\ opens = 1
    /\ \E l \in LocalTrees : localDirs = l.dirs /\ localFiles = l.files
    /\ \E r \in RemoteTrees : remoteDirs = r.dirs /\ remoteFiles = r.files
    /\ pc = "walk"
    /\ walk = Walk(localDirs)
    /\ dirnm = Root
    /\ local_filenms = <<>>
    /\ remote_fileinfos = <<>>
    /\ i = 1
    /\ ops = <<>>
    /\ remote0 = remoteFiles
    /\ dirs0 = remoteDirs
    /\ run = 1
    /\ NotHashing

\* lines 61-63: the walk yields its next step
NextStep ==
    /\ pc = "walk"
    /\ walk # <<>>
    /\ dirnm' = Head(walk)
    /\ walk' = Tail(walk)
    /\ local_filenms' = StepFiles(localFiles, Head(walk))
    /\ pc' = "makedir"
    /\ UNCHANGED <<config, deploy, hashing, remote, remote_fileinfos, i, history>>

\* line 61: the walk is exhausted, publish() returns
WalkDone ==
    /\ pc = "walk"
    /\ walk = <<>>
    /\ pc' = "done"
    /\ UNCHANGED <<config, deploy, hashing, remote, step, history>>

\* line 65
MakeDir ==
    /\ pc = "makedir"
    /\ \E ok \in {b \in BOOLEAN : b => CanMakeDir(remoteDirs, dirnm)} :
        /\ ops' = Append(ops, Op("makedir", dirnm, ok))
        /\ remoteDirs' = IF ok THEN remoteDirs \cup {dirnm} ELSE remoteDirs
        /\ pc' = IF ok THEN "filterdir" ELSE Raise
    /\ UNCHANGED <<config, deploy, hashing, remoteFiles, step, remote0, dirs0, run>>

\* line 66
ListDir ==
    /\ pc = "filterdir"
    /\ \E ok \in {b \in BOOLEAN : b => dirnm \in remoteDirs} :
        /\ ops' = Append(ops, Op("filterdir", dirnm, ok))
        /\ remote_fileinfos' = IF ok THEN FilterDir(remoteFiles, dirnm)
                                     ELSE remote_fileinfos
        /\ pc' = IF ok THEN "files" ELSE Raise
    /\ i' = 1
    /\ UNCHANGED <<config, deploy, hashing, remote, walk, dirnm, local_filenms, remote0, dirs0, run>>

\* lines 68-93: one local file is skipped, or uploaded
ProcessFile ==
    /\ pc = "files"
    /\ i <= Len(local_filenms)
    /\ LET filenm == local_filenms[i]
           filepath == pathjoin(dirnm, filenm)
           info == FindInfo(remote_fileinfos, filenm)
       IN  IF \/ SkipByEtag(info, check_etag, BytesAt(remoteFiles, filepath),
                         localFiles[filepath].content)
              \/ SkipUpload(info, check_mtime, localFiles[filepath].mtime)
           THEN /\ i' = i + 1
                /\ UNCHANGED <<localFiles, remoteFiles, pc, ops>>
           ELSE \E ok \in {b \in BOOLEAN : b => dirnm \in remoteDirs} :
                    /\ localFiles' = OpenRead(localFiles, filepath)
                    /\ ops' = Append(ops, Op("writefile", filepath, ok))
                    /\ remoteFiles' =
                           IF ok THEN WriteFile(remoteFiles, filepath,
                                                localFiles[filepath].content, Now)
                                 ELSE remoteFiles
                    /\ pc' = IF ok THEN pc ELSE Raise
                    /\ i' = IF ok THEN i + 1 ELSE i
    /\ UNCHANGED <<config, localDirs, hashing, remoteDirs, walk, dirnm,
                   local_filenms, remote_fileinfos, remote0, dirs0, run>>

\* lines 85, 92: reading the local file raises
LocalReadFails ==
    /\ pc = "files"
    /\ i <= Len(local_filenms)
    /\ pc' = Raise
    /\ UNCHANGED <<config, deploy, hashing, remote, step, history>>

\* line 68: the loop over the local files ends
FilesDone ==
    /\ pc = "files"
    /\ i > Len(local_filenms)
    /\ pc' = "removes"
    /\ i' = 1
    /\ UNCHANGED <<config, deploy, hashing, remote, walk, dirnm, local_filenms,
                   remote_fileinfos, history>>

\* lines 95-99: one remote file of the listing is removed, or kept
ProcessInfo ==
    /\ pc = "removes"
    /\ i <= Len(Candidates(remote_fileinfos, remoteFiles, dirnm))
    /\ LET info == Candidates(remote_fileinfos, remoteFiles, dirnm)[i]
           filepath == pathjoin(dirnm, info.name)
       IN  IF ShouldRemove(dirnm, info, local_filenms)
           THEN \E ok \in {b \in BOOLEAN : b => filepath \in DOMAIN remoteFiles} :
                    /\ ops' = Append(ops, Op("remove", filepath, ok))
                    /\ remoteFiles' = IF ok THEN Remove(remoteFiles, filepath)
                                            ELSE remoteFiles
                    /\ pc' = IF ok THEN pc ELSE Raise
                    /\ i' = IF ok THEN i + 1 ELSE i
           ELSE /\ i' = i + 1
                /\ UNCHANGED <<remoteFiles, pc, ops>>
    /\ UNCHANGED <<config, deploy, hashing, remoteDirs, walk, dirnm, local_filenms,
                   remote_fileinfos, remote0, dirs0, run>>

\* line 95: the loop over the remote files ends
RemovesDone ==
    /\ pc = "removes"
    /\ i > Len(Candidates(remote_fileinfos, remoteFiles, dirnm))
    /\ pc' = "walk"
    /\ UNCHANGED <<config, deploy, hashing, remote, step, history>>

Next ==
    \/ NextStep
    \/ WalkDone
    \/ MakeDir
    \/ ListDir
    \/ ProcessFile
    \/ LocalReadFails
    \/ FilesDone
    \/ ProcessInfo
    \/ RemovesDone

Spec == Init /\ [][Next]_vars

\* publish() runs in one thread and every call it makes returns or raises.
SpecFair == Init /\ [][Next]_vars /\ WF_vars(Next)

\* publish() is called again, the deploy tree being as it was
Republish ==
    /\ pc = "done"
    /\ run < MaxRuns
    /\ run' = run + 1
    /\ pc' = "walk"
    /\ walk' = Walk(localDirs)
    /\ ops' = <<>>
    /\ remote0' = remoteFiles
    /\ dirs0' = remoteDirs
    /\ UNCHANGED <<config, deploy, hashing, remote, dirnm, local_filenms, remote_fileinfos, i>>

NextTwice ==
    \/ Next
    \/ Republish

SpecTwice == Init /\ [][NextTwice]_vars

------------------------------------------------------------------------------
(* Properties *)

\* publish() has returned normally.
Done == pc = "done"
\* A writefile on path succeeded during this publish().
Written(path) == \E k \in 1..Len(ops) : ops[k] = Op("writefile", path, TRUE)
\* The listing publish() took of path's directory held a more recent copy of path.
RemoteNewer(path) ==
    /\ path \in DOMAIN remote0
    /\ remote0[path].mtime > localFiles[path].mtime
\* Trees f and g hold the same files with the same contents.
SameNamesAndContent(f, g) ==
    /\ DOMAIN f = DOMAIN g
    /\ \A p \in DOMAIN f : f[p].content = g[p].content
\* What the operations of log make of files.
RECURSIVE Replay(_, _)
Replay(files, log) ==
    IF log = <<>> THEN files
    ELSE LET o == Head(log)
             next == IF ~o.ok THEN files
                     ELSE IF o.op = "writefile"
                          THEN [p \in DOMAIN files \cup {o.path} |->
                                  IF p = o.path
                                  THEN [content |-> localFiles[p].content, mtime |-> Now]
                                  ELSE files[p]]
                     ELSE IF o.op = "remove"
                          THEN [p \in DOMAIN files \ {o.path} |-> files[p]]
                     ELSE files
         IN  Replay(next, Tail(log))

\* C1: once publish() has returned, every visited directory holds remotely
\* exactly the file names it holds locally.
C1_RemoteNamesEqualLocal ==
    Done => \A d \in localDirs : FilesIn(remoteFiles, d) = FilesIn(localFiles, d)

\* C2: with check_mtime, a local file whose remote copy is more recent is not
\* written, and once publish() has returned the remote copy is still there,
\* unchanged.
C2_NewerRemoteCopySurvives ==
    (Done /\ check_mtime) =>
        \A p \in DOMAIN localFiles :
            RemoteNewer(p) =>
                /\ ~Written(p)
                /\ p \in DOMAIN remoteFiles
                /\ remoteFiles[p] = remote0[p]

\* C3: a second publish() in a row leaves the remote tree as the first one
\* left it, in file names and contents.
C3_SecondRunChangesNothing ==
    (Done /\ run >= 2) => SameNamesAndContent(remoteFiles, remote0)

\* C4: publish() removes no remote file that has a local file of the same name
\* in the same directory.
C4_RemovesOnlyOrphans ==
    \A k \in 1..Len(ops) :
        (ops[k].op = "remove" /\ ops[k].ok) => ops[k].path \notin DOMAIN localFiles

\* C5: once publish() has returned, no visited directory holds a remote file
\* that was there before and whose name no local file of the directory bears.
C5_OrphansDeleted ==
    Done => \A d \in localDirs :
                \A n \in FilesIn(remote0, d) \ FilesIn(localFiles, d) :
                    pathjoin(d, n) \notin DOMAIN remoteFiles

C5_Witness ==
    /\ Done
    /\ FilesIn(remote0, Root) \ FilesIn(localFiles, Root) # {}
    /\ FilesIn(localFiles, Root) # {}
    /\ \E d \in localDirs \ {Root} : FilesIn(remote0, d) \ FilesIn(localFiles, d) # {}

\* C6: from a remote tree without files, publish() issues no remove, and once
\* it has returned every visited directory holds remotely exactly the file
\* names it holds locally.
C6_PureUpload ==
    DOMAIN remote0 = {} =>
        /\ \A k \in 1..Len(ops) : ops[k].op # "remove"
        /\ Done => \A d \in localDirs : FilesIn(remoteFiles, d) = FilesIn(localFiles, d)

C6_Witness ==
    /\ Done
    /\ DOMAIN remote0 = {}
    /\ DOMAIN localFiles = PathsUnder(Dirs)

\* C7: once publish() has returned, every local file that had no remote file
\* of its name in its directory exists remotely, with the local bytes.
C7_NewFileCreated ==
    Done => \A p \in DOMAIN localFiles \ DOMAIN remote0 :
                /\ p \in DOMAIN remoteFiles
                /\ remoteFiles[p].content = localFiles[p].content

C7_Witness ==
    /\ Done
    /\ check_mtime
    /\ DOMAIN remote0 # {}
    /\ \E p \in DOMAIN localFiles \ DOMAIN remote0 : p \notin PathsUnder({Root})
    /\ \E p \in DOMAIN localFiles \ DOMAIN remote0 : p \in PathsUnder({Root})

\* C8: a local file is left unwritten exactly when check_mtime is set and the
\* remote directory held a strictly more recent file of its name; a write puts
\* the local bytes at the remote path, whether the path existed or not.
C8_UploadDecision ==
    /\ Done => \A p \in DOMAIN localFiles :
                   ~Written(p) <=> (check_mtime /\ RemoteNewer(p))
    /\ \A k \in 1..Len(ops) :
           (k = Len(ops) /\ ops[k].op = "writefile" /\ ops[k].ok) =>
               /\ ops[k].path \in DOMAIN remoteFiles
               /\ remoteFiles[ops[k].path].content = localFiles[ops[k].path].content

C8_Witness ==
    /\ Done
    /\ check_mtime
    /\ \E p \in DOMAIN localFiles : RemoteNewer(p) /\ ~Written(p)
    /\ \E p \in DOMAIN localFiles \cap DOMAIN remote0 :
           /\ remote0[p].mtime = localFiles[p].mtime
           /\ remote0[p].content # localFiles[p].content
           /\ Written(p)
    /\ \E p \in DOMAIN localFiles \ DOMAIN remote0 : Written(p)

\* check_etag names a digest algorithm hashlib does not know.
UnsupportedDigest(etag) ==
    etag.type = "str" /\ etag.val # "" /\ etag.val \notin HashAlgorithms
\* initialize() has neither prompted for credentials nor called open_fs, and
\* has raised ValueError if it has run.
RejectedEarly ==
    /\ prompts = <<>>
    /\ opens = 0
    /\ pc \in {"initialize", "ValueError"}

C11_EtagDecidesNothing ==
    /\ (pc = "files" /\ i <= Len(local_filenms)) =>
           LET filenm == local_filenms[i]
               filepath == pathjoin(dirnm, filenm)
               info == FindInfo(remote_fileinfos, filenm)
           IN  \A etag \in EtagSettings :
                   SkipByEtag(info, etag, BytesAt(remoteFiles, filepath),
                              localFiles[filepath].content)
                   = SkipByEtag(info, check_etag, BytesAt(remoteFiles, filepath),
                                localFiles[filepath].content)
    /\ Done => \A p \in DOMAIN localFiles :
                   ~Written(p) => (check_mtime /\ RemoteNewer(p))

C11_Witness ==
    /\ Done
    /\ Truthy(check_etag)
    /\ \E p \in DOMAIN localFiles \cap DOMAIN remote0 :
           /\ remote0[p].content = localFiles[p].content
           /\ Written(p)

\* The directory an operation works on.
OpDir(o) ==
    IF o.op \in {"makedir", "filterdir"} THEN o.path
    ELSE CHOOSE d \in Dirs : \E n \in FileNames : pathjoin(d, n) = o.path
\* The place of an operation in the processing of its directory.
Rank(o) ==
    CASE o.op = "makedir" -> 1
      [] o.op = "filterdir" -> 2
      [] o.op = "writefile" -> 3
      [] o.op = "remove" -> 4

\* C12: the operations come directory by directory, the root before its
\* sub-directories; within a directory makedir, then one listing, then the
\* writes, then the removes; the directory of every operation after makedir
\* has been made, and the parent of every directory made exists.  The log
\* only grows at its end, so the order is stated of the operation issued last
\* against all before it.
C12_OperationOrder ==
    LET k == Len(ops)
    IN  k > 0 =>
        /\ \A j \in 1..(k-1) :
               /\ OpDir(ops[k]) = Root => OpDir(ops[j]) = Root
               /\ OpDir(ops[j]) = OpDir(ops[k]) =>
                      /\ Rank(ops[j]) <= Rank(ops[k])
                      /\ Rank(ops[k]) <= 2 => Rank(ops[j]) < Rank(ops[k])
                      /\ OpDir(ops[k-1]) = OpDir(ops[k])
        /\ Rank(ops[k]) = 1 => Root \in remoteDirs
        /\ Rank(ops[k]) >= 2 =>
               /\ k > 1
               /\ ops[k-1].ok
               /\ OpDir(ops[k-1]) = OpDir(ops[k])
               /\ Op("makedir", OpDir(ops[k]), TRUE) \in Range(ops)
               /\ OpDir(ops[k]) \in remoteDirs
        /\ Rank(ops[k]) >= 3 => Op("filterdir", OpDir(ops[k]), TRUE) \in Range(ops)

C12_Witness ==
    /\ Done
    /\ SubDirs \cap dirs0 = {}
    /\ \A d \in Dirs : \E j, k \in 1..Len(ops) :
           /\ OpDir(ops[j]) = d /\ ops[j].op = "writefile"
           /\ OpDir(ops[k]) = Root /\ ops[k].op = "remove"

\* C13: a listing that fails on a directory that did not exist before the
\* pass is taken as empty and publish() goes on.
C13_ListingFailureNotFatal ==
    \A k \in 1..Len(ops) :
        (ops[k].op = "filterdir" /\ ~ops[k].ok /\ ops[k].path \notin dirs0) =>
            pc # "failed"

\* C13, as amended: a listing that fails ends publish() whatever the cause,
\* also on a directory this pass has made; a listing that succeeds on such a
\* directory is empty, so every local file of the directory is uploaded and
\* nothing is removed from it.
C13_ListingFailureFatal ==
    /\ \A k \in 1..Len(ops) :
           (ops[k].op = "filterdir" /\ ~ops[k].ok) => (pc = "failed" /\ k = Len(ops))
    /\ Done => \A d \in localDirs \ dirs0 :
                   /\ \A n \in FilesIn(localFiles, d) : Written(pathjoin(d, n))
                   /\ \A k \in 1..Len(ops) :
                          ops[k].op = "remove" => OpDir(ops[k]) # d

C13_Witness ==
    /\ pc = "failed"
    /\ \E d \in localDirs \ dirs0 :
           /\ ops[Len(ops)] = Op("filterdir", d, FALSE)
           /\ FilesIn(localFiles, d) # {}

\* C14: publish() removes no remote directory, and works on no file of a
\* remote directory that has no local counterpart: the files of such a
\* directory stay as publish() found them.
C14_RemoteFrame ==
    /\ dirs0 \subseteq remoteDirs
    /\ \A k \in 1..Len(ops) :
           ops[k].op \in {"writefile", "remove"} => OpDir(ops[k]) \in localDirs
    /\ \A p \in PathsUnder(Dirs \ localDirs) :
           /\ p \in DOMAIN remoteFiles <=> p \in DOMAIN remote0
           /\ p \in DOMAIN remote0 => remoteFiles[p] = remote0[p]

C14_Witness ==
    /\ Done
    /\ \E d \in dirs0 \ localDirs : FilesIn(remote0, d) # {}
    /\ \E k \in 1..Len(ops) : ops[k].op = "remove" /\ ops[k].ok
    /\ \E k \in 1..Len(ops) : ops[k].op = "writefile" /\ ops[k].ok

\* The number of operations op issued on path.
Count(op, path) == Cardinality({k \in 1..Len(ops) : ops[k].op = op /\ ops[k].path = path})

\* C15: publish() comes to an end, and it works on every local directory
\* once: never more than one makedir and one listing per directory nor more
\* than one write per file, and exactly one makedir and one listing per local
\* directory once it has returned.
C15_SingleLinearPass ==
    /\ <>(pc \in {"done", "failed"})
    /\ [](/\ \A d \in Dirs : Count("makedir", d) <= 1 /\ Count("filterdir", d) <= 1
          /\ \A p \in PathsUnder(Dirs) : Count("writefile", p) <= 1
          /\ Done => \A d \in Dirs :
                         /\ Count("makedir", d) = (IF d \in localDirs THEN 1 ELSE 0)
                         /\ Count("filterdir", d) = (IF d \in localDirs THEN 1 ELSE 0))

C15_Witness ==
    /\ Done
    /\ localDirs = Dirs
    /\ \A p \in PathsUnder(Dirs) : Count("writefile", p) = 1

\* C16: _calculate_etag hands the hash object the bytes of the file, all of
\* them and in order, so it returns the digest of the file hashed in one
\* piece, whatever the length of the file; and every turn of its loop hands
\* over at least one more byte of the file, so it ends.
C16_ChunkedDigest ==
    /\ [](/\ pc = "while" => fed \o data = SubSeq(stream.bytes, 1, stream.pos)
          /\ pc = "returned" =>
                 /\ fed = stream.bytes
                 /\ digest = HexDigest(HashUpdate(HashNew(Lower(check_etag.val)),
                                                  stream.bytes)))
    /\ [][(pc = "while" /\ pc' = "while") => Len(fed') > Len(fed)]_vars

C16_Witness ==
    /\ pc = "returned"
    /\ Len(stream.bytes) = 2 * ChunkSize
    /\ check_etag = PyStr("SHA1")

\* C17: publish() only reads the local tree: no step of it, whether the pass
\* goes on, ends or fails, changes the local directories, the local files,
\* their bytes or their modification times.
C17_LocalFrame == [][localDirs' = localDirs /\ localFiles' = localFiles]_vars

C17_Witness ==
    /\ pc = "failed"
    /\ DOMAIN localFiles = PathsUnder(Dirs)
    /\ \E k \in 1..Len(ops) : ops[k].op = "writefile" /\ ops[k].ok
    /\ ~ops[Len(ops)].ok

\* C18: the deletion loop of a directory goes over the listing made before
\* the uploads of that directory: every remove is aimed at a file that was
\* on the remote when the pass began, so never at a file this pass created,
\* and at a file that is there when the remove is issued; no path is removed
\* twice or written twice.
C18_SnapshotCandidates ==
    /\ pc \in {"files", "removes"} => remote_fileinfos = FilterDir(remote0, dirnm)
    /\ \A k \in 1..Len(ops) : ops[k].op = "remove" => ops[k].path \in DOMAIN remote0
    /\ (pc = "removes" /\ i <= Len(remote_fileinfos)) =>
           pathjoin(dirnm, remote_fileinfos[i].name) \in DOMAIN remoteFiles
    /\ \A path \in PathsUnder(Dirs) :
           Count("remove", path) <= 1 /\ Count("writefile", path) <= 1

C18_Witness ==
    /\ Done
    /\ \E j, k \in 1..Len(ops) :
           /\ j < k
           /\ ops[j] = Op("writefile", pathjoin(Root, "a"), TRUE)
           /\ pathjoin(Root, "a") \notin DOMAIN remote0
           /\ pathjoin(Root, "a") \in DOMAIN remoteFiles
           /\ ops[k] = Op("remove", pathjoin(Root, "b"), TRUE)
====
